---------------------------- MODULE Spec2Model ----------------------------
(***************************************************************************)
(* Word-bubble pipeline of src/unnamed/part_000 (the later revision of     *)
(* src/src/app.js): tokenize -> countWords -> inference -> t-SNE ->        *)
(* k-means -> radius scale -> force layout, and the font fitter.           *)
(*                                                                         *)
(* JavaScript values are encoded so that TLC never compares values of      *)
(* different types:                                                        *)
(*   - a count is [num |-> TRUE, v |-> n] for the number n, and            *)
(*     [num |-> FALSE, v |-> k] for the string that `+= 1` builds from an  *)
(*     inherited, non-numeric property value: that value's text followed   *)
(*     by k characters "1";                                                *)
(*   - an embedding vector is a tuple of integers, and <<>> is undefined;  *)
(*   - a radius is the rational [n |-> p, d |-> q], and d = 0 is NaN.      *)
(***************************************************************************)
EXTENDS Integers, Sequences, FiniteSets

VARIABLES
    cwInput, cwOutput, cwPc,                 \* one call of countWords
    scCounts, scMinR, scMaxR, scRadii,       \* one radius-scale batch
    fitWord, fitFont, fitR, fitOk, fitNg,    \* the calls of optimalFontSize
    fitIter, fitMeasured, fitPc, fitResult,
    callers, args, pc, running,              \* the invocations of visualize
    tokens, counted, ref, result, heap,
    timers, consoleShared, assets,
    d3Midpoint                               \* the build's d3-scale: degenerate domain -> midpoint?

cwVars == <<cwInput, cwOutput, cwPc>>
scVars == <<scCounts, scMinR, scMaxR, scRadii>>
fitVars == <<fitWord, fitFont, fitR, fitOk, fitNg, fitIter, fitMeasured, fitPc, fitResult>>
pipeVars == <<callers, args, pc, running, tokens, counted, ref, result, heap,
              timers, consoleShared, assets>>

(***************************************************************************)
(* Bounds of the model.                                                    *)
(***************************************************************************)
MaxLen == 3          \* longest word sequence handed to countWords
MaxBatch == 3        \* most Words in a radius-scale batch
MaxCount == 3        \* largest count in a radius-scale batch
MaxRadius == 3       \* largest minR / maxR
SqrtScale == 10      \* Math.sqrt is kept to 1/SqrtScale
MaxFitRadius == 6    \* radii handed to optimalFontSize: 0, RadiusStep, ..., MaxFitRadius * RadiusStep
RadiusStep == 200    \* spacing of those radii, in the units of the bounding box
MaxTokens == 3       \* most tokens of a submitted text
MaxConcTokens == 1   \* most tokens of a text submitted while the mount-time call runs
MaxClusters == 2     \* largest numClusters submitted

(***************************************************************************)
(* Constants of the program.                                               *)
(***************************************************************************)
Rounds == 10         \* for (let iter = 0; iter < 10; ++iter)
ProjectionScale == 600   \* word.x = word.x0 = xy[i][0] * 600
DefaultNumClusters == 5
DefaultMinR == 6
DefaultMaxR == 30

(***************************************************************************)
(* Strings.  PlainKeys and IndexKeys are keys of vocabulary.json;          *)
(* IndexKeys are canonical array indices ("1", "2"), which a JavaScript    *)
(* object enumerates first and in ascending numeric order.                 *)
(* ObjectPrototypeKeys are properties every object literal inherits from   *)
(* Object.prototype: "constructor" stands for the data properties (all of  *)
(* them functions), "__proto__" is the accessor.  "zz" is a word that is   *)
(* no key at all.                                                          *)
(***************************************************************************)
PlainKeys == {"a", "b"}
IndexKeys == {"1", "2"}
ObjectPrototypeKeys == {"constructor", "__proto__"}
Keys == PlainKeys \cup IndexKeys \cup ObjectPrototypeKeys \cup {"zz"}

IndexValue(w) == IF w = "1" THEN 1 ELSE 2

JSNum(n) == [num |-> TRUE, v |-> n]
JSStr(k) == [num |-> FALSE, v |-> k]

SeqsUpTo(S, n) == UNION {[1..k -> S] : k \in 0..n}

(***************************************************************************)
(* The object `count` of countWords: its own keys in creation order and    *)
(* their values.  `{}` inherits from Object.prototype.                     *)
(***************************************************************************)
EmptyObject == [keys |-> <<>>, val |-> [w \in {} |-> JSNum(0)]]

Range(s) == {s[i] : i \in DOMAIN s}

HasOwn(obj, w) == w \in Range(obj.keys)

\* `word in count`: own properties and the inherited ones.
HasProperty(obj, w) == HasOwn(obj, w) \/ w \in ObjectPrototypeKeys

\* count[word] = value.  The __proto__ setter ignores a value that is neither
\* an object nor null; any other key becomes (or stays) an own property.
PutValue(obj, w, v) ==
    IF w = "__proto__" THEN obj
    ELSE IF HasOwn(obj, w)
         THEN [obj EXCEPT !.val = [@ EXCEPT ![w] = v]]
         ELSE [keys |-> Append(obj.keys, w),
               val |-> [x \in DOMAIN obj.val \cup {w} |->
                           IF x = w THEN v ELSE obj.val[x]]]

\* count[word] + 1.  An own value is a number (or the string built earlier);
\* an inherited value is a function or Object.prototype, whose sum with 1 is
\* the string of its text followed by "1".
PlusOne(obj, w) ==
    IF HasOwn(obj, w)
    THEN [obj.val[w] EXCEPT !.v = @ + 1]
    ELSE JSStr(1)

\* One iteration of the loop of countWords.
CountStep(obj, w) ==
    LET init == IF HasProperty(obj, w) THEN obj ELSE PutValue(obj, w, JSNum(0))
    IN  PutValue(init, w, PlusOne(init, w))

RECURSIVE CountLoop(_, _)
CountLoop(obj, words) ==
    IF words = <<>> THEN obj
    ELSE CountLoop(CountStep(obj, Head(words)), Tail(words))

\* The index keys of s, ascending.
RECURSIVE SortedIndexKeys(_)
SortedIndexKeys(S) ==
    IF S = {} THEN <<>>
    ELSE LET m == CHOOSE x \in S : \A y \in S : IndexValue(x) <= IndexValue(y)
         IN  <<m>> \o SortedIndexKeys(S \ {m})

\* Object.entries order: array-index keys ascending, then the other string
\* keys in creation order.
OwnKeys(obj) ==
    LET IsIndex(w) == w \in IndexKeys
        NotIndex(w) == w \notin IndexKeys
    IN  SortedIndexKeys({w \in Range(obj.keys) : IsIndex(w)})
        \o SelectSeq(obj.keys, NotIndex)

CountWords(words) ==
    LET count == CountLoop(EmptyObject, words)
        ks == OwnKeys(count)
    IN  [i \in 1..Len(ks) |-> [word |-> ks[i], count |-> count.val[ks[i]]]]

(***************************************************************************)
(* The radius scale of visualize:                                          *)
(*   d3.scaleSqrt().domain(d3.extent(words, count)).range([minR, maxR])    *)
(* d3 is a dependency; extent, the continuous scale's normalize and        *)
(* interpolateNumber are modelled by what d3-array, d3-scale and           *)
(* d3-interpolate compute.                                                 *)
(***************************************************************************)
NaN == [n |-> 0, d |-> 0]
Rat(p, q) == [n |-> p, d |-> q]
IsNaN(r) == r.d = 0
REq(r1, r2) == ~IsNaN(r1) /\ ~IsNaN(r2) /\ r1.n * r2.d = r2.n * r1.d
RLeq(r1, r2) == ~IsNaN(r1) /\ ~IsNaN(r2) /\ r1.n * r2.d <= r2.n * r1.d

\* JavaScript's a > b on counts: numbers by value, two strings by their text,
\* a number against a non-numeric string is false (the string converts to NaN).
JSGreater(a, b) == a.num = b.num /\ a.v > b.v

\* d3.extent: the first value defines min and max (value >= value holds for a
\* number and for a string alike), the others move them.
RECURSIVE ExtentLoop(_, _, _)
ExtentLoop(lo, hi, counts) ==
    IF counts = <<>> THEN <<lo, hi>>
    ELSE LET c == Head(counts)
         IN  ExtentLoop(IF JSGreater(lo, c) THEN c ELSE lo,
                        IF JSGreater(c, hi) THEN c ELSE hi,
                        Tail(counts))

\* <<>> stands for [undefined, undefined], the extent of no values.
Extent(counts) ==
    IF counts = <<>> THEN <<>>
    ELSE ExtentLoop(Head(counts), Head(counts), Tail(counts))

\* Math.sqrt in fixed point: floor(sqrt(c) * SqrtScale).
ISqrt(c) == CHOOSE s \in 0..(SqrtScale * c) :
    /\ s * s <= c * SqrtScale * SqrtScale
    /\ (s + 1) * (s + 1) > c * SqrtScale * SqrtScale

\* interpolateNumber(a, b)(t) = a * (1 - t) + b * t, with t = tn / td.
Interpolate(a, b, tn, td) == Rat(a * (td - tn) + b * tn, td)

\* RScale with the range given as [maxR, minR].
RScaleSwapped(counts, minR, maxR, midpoint, c) ==
    LET ext == Extent(counts)
    IN  IF ext = <<>> \/ ~c.num THEN NaN
        ELSE IF ~ext[1].num \/ ~ext[2].num THEN NaN
        ELSE LET a == ISqrt(ext[1].v)
                 b == ISqrt(ext[2].v)
             IN  IF b - a = 0
                 THEN IF midpoint THEN Interpolate(maxR, minR, 1, 2)
                                  ELSE Interpolate(maxR, minR, 0, 1)
                 ELSE Interpolate(maxR, minR, ISqrt(c.v) - a, b - a)

\* rScale(count).  The domain is the extent converted to numbers; a count or a
\* domain bound that is no number gives no number.  A domain [c, c] maps every
\* value to t = 1/2 (newer d3-scale releases) or to t = 0 (older ones).
RScale(counts, minR, maxR, midpoint, c) ==
    LET ext == Extent(counts)
    IN  IF ext = <<>> \/ ~c.num THEN NaN
        ELSE IF ~ext[1].num \/ ~ext[2].num THEN NaN
        ELSE LET a == ISqrt(ext[1].v)
                 b == ISqrt(ext[2].v)
             IN  IF b - a = 0
                 THEN IF midpoint THEN Interpolate(minR, maxR, 1, 2)
                                  ELSE Interpolate(minR, maxR, 0, 1)
                 ELSE Interpolate(minR, maxR, ISqrt(c.v) - a, b - a)

(***************************************************************************)
(* optimalFontSize.  A font size is kept in units of 100 / 2^Rounds: ok = 0 *)
(* and ng = Grid stand for 0 and 100, and every midpoint of the ten rounds  *)
(* is a whole number of units.                                             *)
(***************************************************************************)
RECURSIVE Pow2(_)
Pow2(k) == IF k = 0 THEN 1 ELSE 2 * Pow2(k - 1)

Grid == Pow2(Rounds)

Runs == {"A", "B"}

FitWords == {"a", "zz", "constructor"}
WordLength(w) == IF w = "a" THEN 1 ELSE IF w = "zz" THEN 2 ELSE 11

\* The rendering capability: text.getBBox() of `word` at font size u, for the
\* fonts of the model.  "linear" grows with the size, "fixed" ignores it,
\* "wrap" and "hinted" do not grow monotonically, "empty" renders nothing.
Fonts == {"linear", "fixed", "wrap", "hinted", "empty"}

BBox(font, word, u) ==
    CASE font = "linear" -> [width |-> WordLength(word) * u, height |-> 2 * u]
      [] font = "fixed"  -> [width |-> 300 * WordLength(word), height |-> 400]
      [] font = "wrap"   -> [width |-> (WordLength(word) * u) % 512, height |-> 2 * (u % 128)]
      [] font = "hinted" -> IF u \in 200..420
                            THEN [width |-> 4 * WordLength(word) * u, height |-> 4 * u]
                            ELSE [width |-> WordLength(word) * (u \div 2), height |-> u]
      [] OTHER           -> [width |-> 0, height |-> 0]

\* The comparison d < r in place of d <= r.
HalfDiagonalFitsStrictly(bbox, r) ==
    /\ ~IsNaN(r)
    /\ r.n >= 0
    /\ (bbox.width * bbox.width + bbox.height * bbox.height) * r.d * r.d
          < 4 * r.n * r.n

\* d <= r with d = Math.sqrt(width ** 2 + height ** 2) / 2; false for r = NaN.
HalfDiagonalFits(bbox, r) ==
    /\ ~IsNaN(r)
    /\ r.n >= 0
    /\ (bbox.width * bbox.width + bbox.height * bbox.height) * r.d * r.d
          <= 4 * r.n * r.n

\* The two branches taken the other way round.
BisectSwapped(ok, ng, fits) ==
    LET m == (ok + ng) \div 2
    IN  IF fits THEN <<ok, m>> ELSE <<m, ng>>

\* One round: m = (ok + ng) / 2; if (d <= r) ok = m; else ng = m.
Bisect(ok, ng, fits) ==
    LET m == (ok + ng) \div 2
    IN  IF fits THEN <<m, ng>> ELSE <<ok, m>>

(***************************************************************************)
(* visualize.  The three assets are the values the module-level promises   *)
(* resolve to.  A text is represented by the basic forms the tokenizer      *)
(* finds in it.  Arrays and Word lists live in a heap: an object records   *)
(* the invocations that read or wrote it.                                  *)
(***************************************************************************)
Invocations == {"mount", "submit"}

TextTokens == {"a", "b", "constructor", "__proto__", "zz"}

DefaultTokens == <<"a", "b", "a">>

Undefined == <<>>

VocabularyJson == [w \in PlainKeys \cup IndexKeys |->
    CASE w = "a" -> 0 [] w = "b" -> 1 [] w = "1" -> 2 [] OTHER -> 3]

WeightMatrix == [k \in 0..3 |-> <<k, k + 1>>]

LoadedAssets == [vocabulary |-> VocabularyJson,
                 weight |-> WeightMatrix,
                 tokenizer |-> "kuromoji"]

\* `word in vocabulary`: the keys of vocabulary.json and the inherited ones.
InVocabulary(voc, w) == w \in DOMAIN voc \/ w \in ObjectPrototypeKeys

\* tokenizer.tokenize(text).map(basic_form).filter(word in vocabulary)
FilterTokens(a, raw) ==
    LET Keep(w) == InVocabulary(a.vocabulary, w)
    IN  SelectSeq(raw, Keep)

\* weight[vocabulary[word]]: a row for a key of vocabulary.json; undefined for
\* an inherited property (a function or an object is no index) or no key.
EmbeddingRow(a, w) ==
    IF w \in DOMAIN a.vocabulary /\ a.vocabulary[w] \in DOMAIN a.weight
    THEN a.weight[a.vocabulary[w]]
    ELSE Undefined

\* words.map(({ word }) => weight[vocabulary[word]])
InferenceMap(a, ws) == [i \in DOMAIN ws |-> EmbeddingRow(a, ws[i].word)]

\* tsne-js and skmeans are dependencies and randomized.  A run is given by
\* its seed; point i is computed from vector i, group i from point i.  On
\* data they are not made for (no rows, an undefined row, a cluster count
\* outside 1..N) a call either completes or throws.
Seeds == {0, 1}

Component(v, k) == IF Len(v) >= k THEN v[k] ELSE 0

Projection(seed, vectors) ==
    [i \in DOMAIN vectors |->
        <<((Component(vectors[i], 1) + seed) % 3) - 1,
          ((Component(vectors[i], 2) + 2 * seed) % 3) - 1>>]

DegenerateData(vectors) ==
    vectors = <<>> \/ \E i \in DOMAIN vectors : vectors[i] = Undefined

Clusters(seed, xy, k) ==
    [i \in DOMAIN xy |-> IF k < 1 THEN 0 ELSE (xy[i][1] + xy[i][2] + 2 + seed) % k]

DegenerateClustering(xy, k) == xy = <<>> \/ k < 1 \/ k > Len(xy)

\* The body of words.forEach with every index replaced by the first.
AssignFirst(ws, xy, groups, minR, maxR, midpoint) ==
    LET counts == [i \in DOMAIN ws |-> ws[i].count]
    IN  [i \in DOMAIN ws |->
            [word |-> ws[i].word, count |-> ws[i].count,
             x |-> xy[1][1] * ProjectionScale, y |-> xy[1][2] * ProjectionScale,
             x0 |-> xy[1][1] * ProjectionScale, y0 |-> xy[1][2] * ProjectionScale,
             group |-> groups[1],
             r |-> RScale(counts, minR, maxR, midpoint, ws[1].count)]]

\* words.forEach((word, i) => { ... })
AssignFields(ws, xy, groups, minR, maxR, midpoint) ==
    LET counts == [i \in DOMAIN ws |-> ws[i].count]
    IN  [i \in DOMAIN ws |->
            [word |-> ws[i].word, count |-> ws[i].count,
             x |-> xy[i][1] * ProjectionScale, y |-> xy[i][2] * ProjectionScale,
             x0 |-> xy[i][1] * ProjectionScale, y0 |-> xy[i][2] * ProjectionScale,
             group |-> groups[i],
             r |-> RScale(counts, minR, maxR, midpoint, ws[i].count)]]

\* improveLayout: d3.forceSimulation(words) gives every node index, vx and vy
\* and moves x and y for 100 ticks; the outcome of the simulation is the
\* displacement j.
Displacements == {0, 1}

Declutter(ws, j) ==
    [i \in DOMAIN ws |->
        [word |-> ws[i].word, count |-> ws[i].count,
         x |-> ws[i].x + j * i, y |-> ws[i].y - j * i,
         x0 |-> ws[i].x0, y0 |-> ws[i].y0,
         group |-> ws[i].group, r |-> ws[i].r,
         index |-> i - 1, vx |-> 0, vy |-> 0]]

\* The heap.
NewObject(kind, data, inv) == [kind |-> kind, data |-> data, acc |-> {inv}]

FreshAddress(h) == Len(h) + 1

\* A Word list kept in one module-level array.
SharedWordList(h) == 1

\* countWords returns a new array of new objects on every call.
NewWordList(h) == FreshAddress(h)

Store(h, a, obj) ==
    IF a > Len(h) THEN Append(h, obj)
    ELSE [h EXCEPT ![a] = [obj EXCEPT !.acc = @ \cup h[a].acc]]

Touch(h, a, inv) == [h EXCEPT ![a].acc = @ \cup {inv}]

Write(h, a, data, inv) == [h EXCEPT ![a].data = data, ![a].acc = @ \cup {inv}]

\* console.time / console.timeEnd: one table of labels for the whole page.  A
\* label holds the invocation that started its timer.
Labels == {"preprocess", "inference", "dimensionalityReduction", "clustering",
           "improveLayout"}

ConsoleTime(t, label, inv) == IF t[label] = "none" THEN [t EXCEPT ![label] = inv] ELSE t

ConsoleTimeEnd(t, label) == [t EXCEPT ![label] = "none"]

\* inv finds, under the label, the timer of another invocation.
Collides(t, label, inv) == t[label] \notin {"none", inv}

NoRef == [words |-> 0, wordVector |-> 0, xy |-> 0, groups |-> 0]

DefaultArgs == [raw |-> DefaultTokens, numClusters |-> DefaultNumClusters,
                minR |-> DefaultMinR, maxR |-> DefaultMaxR]

FormRadii == {DefaultMinR, DefaultMaxR}

PipeStart ==
    /\ pc = [inv \in Invocations |-> "idle"]
    /\ running = "none"
    /\ tokens = [inv \in Invocations |-> <<>>]
    /\ counted = [inv \in Invocations |-> <<>>]
    /\ ref = [inv \in Invocations |-> NoRef]
    /\ result = [inv \in Invocations |-> 0]
    /\ heap = <<>>
    /\ timers = [l \in Labels |-> "none"]
    /\ consoleShared = FALSE
    /\ assets = LoadedAssets

PipeIdle ==
    /\ callers = {}
    /\ args = [inv \in Invocations |-> DefaultArgs]
    /\ PipeStart

(***************************************************************************)
(* The state of each part of the program while a specification does not    *)
(* exercise it.                                                            *)
(***************************************************************************)
CountIdle ==
    /\ cwInput = <<>>
    /\ cwOutput = <<>>
    /\ cwPc = "idle"

ScaleIdle ==
    /\ scCounts = <<>>
    /\ scMinR = 0
    /\ scMaxR = 0
    /\ scRadii = <<>>

FitIdle ==
    /\ fitWord = "a"
    /\ fitFont = "empty"
    /\ fitR = [run \in Runs |-> NaN]
    /\ fitOk = [run \in Runs |-> 0]
    /\ fitNg = [run \in Runs |-> Grid]
    /\ fitIter = [run \in Runs |-> 0]
    /\ fitMeasured = [run \in Runs |-> {}]
    /\ fitPc = [run \in Runs |-> "idle"]
    /\ fitResult = [run \in Runs |-> 0]

(***************************************************************************)
(* Specification SpecScale: the scale built for a batch of counts and      *)
(* applied to its Words one after the other, as words.forEach does.        *)
(***************************************************************************)
CountValues == {JSNum(n) : n \in 1..MaxCount} \cup {JSStr(1)}

InitScale ==
    /\ scCounts \in SeqsUpTo(CountValues, MaxBatch)
    /\ scMinR \in 0..MaxRadius
    /\ scMaxR \in 0..MaxRadius
    /\ scRadii = <<>>
    /\ d3Midpoint \in BOOLEAN
    /\ CountIdle
    /\ FitIdle
    /\ PipeIdle

ScaleWord ==
    /\ Len(scRadii) < Len(scCounts)
    /\ scRadii' = Append(scRadii,
          RScale(scCounts, scMinR, scMaxR, d3Midpoint, scCounts[Len(scRadii) + 1]))
    /\ UNCHANGED <<scCounts, scMinR, scMaxR, d3Midpoint, cwVars, fitVars, pipeVars>>

(***************************************************************************)
(* Specification SpecFont: two calls of optimalFontSize.                   *)
(***************************************************************************)
FitRadii == {Rat(k * RadiusStep, 1) : k \in 0..MaxFitRadius} \cup {NaN}

\* Two calls for the same word and font, each with a radius of its own, each
\* past `let ok = 0; let ng = 100;`.
InitFont ==
    /\ fitWord \in FitWords
    /\ fitFont \in Fonts
    /\ fitR \in [Runs -> FitRadii]
    /\ fitOk = [run \in Runs |-> 0]
    /\ fitNg = [run \in Runs |-> Grid]
    /\ fitIter = [run \in Runs |-> 0]
    /\ fitMeasured = [run \in Runs |-> {}]
    /\ fitPc = [run \in Runs |-> "loop"]
    /\ fitResult = [run \in Runs |-> 0]
    /\ d3Midpoint = TRUE
    /\ CountIdle
    /\ ScaleIdle
    /\ PipeIdle

BisectRound(run) ==
    /\ fitPc[run] = "loop"
    /\ fitIter[run] < Rounds
    /\ LET m == (fitOk[run] + fitNg[run]) \div 2
           next == Bisect(fitOk[run], fitNg[run],
                          HalfDiagonalFits(BBox(fitFont, fitWord, m), fitR[run]))
       IN  /\ fitMeasured' = [fitMeasured EXCEPT ![run] = @ \cup {m}]
           /\ fitOk' = [fitOk EXCEPT ![run] = next[1]]
           /\ fitNg' = [fitNg EXCEPT ![run] = next[2]]
    /\ fitIter' = [fitIter EXCEPT ![run] = @ + 1]
    /\ UNCHANGED <<fitWord, fitFont, fitR, fitPc, fitResult, d3Midpoint, cwVars, scVars, pipeVars>>

FitReturn(run) ==
    /\ fitPc[run] = "loop"
    /\ fitIter[run] >= Rounds
    /\ fitPc' = [fitPc EXCEPT ![run] = "returned"]
    /\ fitResult' = [fitResult EXCEPT ![run] = fitOk[run]]
    /\ UNCHANGED <<fitWord, fitFont, fitR, fitOk, fitNg, fitIter, fitMeasured,
                   d3Midpoint, cwVars, scVars, pipeVars>>

(***************************************************************************)
(* Specification SpecCount: one call of countWords on any word sequence.   *)
(***************************************************************************)
InitCount ==
    /\ cwInput \in SeqsUpTo(Keys, MaxLen)
    /\ cwOutput = <<>>
    /\ cwPc = "call"
    /\ d3Midpoint = TRUE
    /\ ScaleIdle
    /\ FitIdle
    /\ PipeIdle

CountWordsCall ==
    /\ cwPc = "call"
    /\ cwOutput' = CountWords(cwInput)
    /\ cwPc' = "returned"
    /\ UNCHANGED <<cwInput, d3Midpoint, scVars, fitVars, pipeVars>>

vars == <<cwVars, scVars, fitVars, pipeVars, d3Midpoint>>

NextCount == CountWordsCall

SpecCount == InitCount /\ [][NextCount]_vars

(***************************************************************************)
(* What the Frequency Counter is specified to return.                      *)
(***************************************************************************)
Occurrences(words, w) == Cardinality({i \in DOMAIN words : words[i] = w})

FirstIndex(words, w) == CHOOSE i \in DOMAIN words :
    words[i] = w /\ \A j \in 1..(i - 1) : words[j] # w

\* C1: countWords returns exactly one entry per distinct word of the input,
\* each with the number of occurrences of that word as its count, in the
\* order in which the distinct words first occur in the input.
C1_CountWordsContract ==
    cwPc = "returned" =>
        /\ {cwOutput[i].word : i \in DOMAIN cwOutput} = Range(cwInput)
        /\ Len(cwOutput) = Cardinality(Range(cwInput))
        /\ \A i \in DOMAIN cwOutput :
              cwOutput[i].count = JSNum(Occurrences(cwInput, cwOutput[i].word))
        /\ \A i, j \in DOMAIN cwOutput :
              i < j => FirstIndex(cwInput, cwOutput[i].word)
                         < FirstIndex(cwInput, cwOutput[j].word)

(***************************************************************************)
(* Specification SpecScale.                                                *)
(***************************************************************************)
NextScale == ScaleWord

SpecScale == InitScale /\ [][NextScale]_vars

AllNumeric(counts) == \A i \in DOMAIN counts : counts[i].num

NumericCounts(counts) == {counts[i].v : i \in {j \in DOMAIN counts : counts[j].num}}
MinOf(S) == CHOOSE c \in S : \A x \in S : c <= x
MaxOf(S) == CHOOSE c \in S : \A x \in S : c >= x

\* C3 as claimed: in every non-empty batch a Word with the minimum count gets
\* minR and a Word with the maximum count gets maxR, also when all counts are
\* equal.
C3_Original ==
    (scCounts # <<>> /\ AllNumeric(scCounts)) =>
        \A i \in DOMAIN scRadii :
            /\ scCounts[i].v = MinOf(NumericCounts(scCounts))
                  => REq(scRadii[i], Rat(scMinR, 1))
            /\ scCounts[i].v = MaxOf(NumericCounts(scCounts))
                  => REq(scRadii[i], Rat(scMaxR, 1))

\* C3 as amended: in a batch with at least two distinct counts a Word with the
\* minimum count gets exactly minR and a Word with the maximum count gets
\* exactly maxR; in a batch whose counts are all equal every Word gets the one
\* value d3 gives a degenerate domain, the midpoint (minR + maxR) / 2 (minR
\* in older d3-scale releases).  A count that is no number is skipped by
\* d3.extent unless it comes first.
C3_ScaleBoundary ==
    (scCounts # <<>> /\ scCounts[1].num) =>
        LET lo == MinOf(NumericCounts(scCounts))
            hi == MaxOf(NumericCounts(scCounts))
        IN  \A i \in DOMAIN scRadii :
                scCounts[i].num =>
                    IF lo < hi
                    THEN /\ scCounts[i].v = lo => REq(scRadii[i], Rat(scMinR, 1))
                         /\ scCounts[i].v = hi => REq(scRadii[i], Rat(scMaxR, 1))
                    ELSE IF d3Midpoint
                         THEN REq(scRadii[i], Rat(scMinR + scMaxR, 2))
                         ELSE REq(scRadii[i], Rat(scMinR, 1))

\* A whole batch with three distinct counts has been scaled onto a range with
\* minR < maxR.
C3_Witness ==
    /\ Len(scCounts) = 3
    /\ Len(scRadii) = 3
    /\ AllNumeric(scCounts)
    /\ Cardinality(NumericCounts(scCounts)) = 3
    /\ scMinR < scMaxR
    /\ \E i \in DOMAIN scRadii : REq(scRadii[i], Rat(scMinR, 1))
    /\ \E i \in DOMAIN scRadii : REq(scRadii[i], Rat(scMaxR, 1))

\* C4: in one batch, c1 < c2 implies r1 <= r2 and c1 = c2 implies r1 = r2,
\* for every minR and maxR the caller can pass, in either order.
C4_Monotone ==
    AllNumeric(scCounts) =>
        \A i, j \in DOMAIN scRadii :
            /\ scCounts[i].v < scCounts[j].v => RLeq(scRadii[i], scRadii[j])
            /\ scCounts[i].v = scCounts[j].v => REq(scRadii[i], scRadii[j])

(***************************************************************************)
(* Specification SpecFont.                                                 *)
(***************************************************************************)
NextFont == \E run \in Runs : BisectRound(run) \/ FitReturn(run)

SpecFont == InitFont /\ [][NextFont]_vars

\* C5: for a fixed word and font, rA <= rB implies that the font size found
\* for rB is at least the one found for rA, for every rendering function.
C5_FontMonotone ==
    \A p, q \in Runs :
        (fitPc[p] = "returned" /\ fitPc[q] = "returned" /\ RLeq(fitR[p], fitR[q]))
            => fitResult[p] <= fitResult[q]

\* Two calls with rA < rB have returned different sizes for a font whose
\* bounding box does not grow monotonically.
C5_Witness ==
    /\ fitPc["A"] = "returned"
    /\ fitPc["B"] = "returned"
    /\ fitFont \in {"wrap", "hinted"}
    /\ RLeq(fitR["A"], fitR["B"])
    /\ fitResult["A"] < fitResult["B"]

FitsAt(run, u) ==
    LET b == BBox(fitFont, fitWord, u)
    IN  /\ fitR[run].d # 0
        /\ (b.width * b.width + b.height * b.height) * fitR[run].d * fitR[run].d
              <= 4 * fitR[run].n * fitR[run].n

\* C10: after round k, 0 <= ok < ng <= 100 and ng - ok = 100 / 2^k, ok is 0
\* or a measured size that fits, ng is 100 or a measured size that does not
\* fit; the call returns after exactly 10 rounds, and the value returned lies
\* in [0, 100], is 0 or fits, and the size 100 / 2^10 above it is 100 or does
\* not fit.
C10_Bisection ==
    \A run \in Runs :
        /\ fitIter[run] \in 0..Rounds
        /\ 0 <= fitOk[run] /\ fitOk[run] < fitNg[run] /\ fitNg[run] <= Grid
        /\ (fitNg[run] - fitOk[run]) * Pow2(fitIter[run]) = Grid
        /\ Cardinality(fitMeasured[run]) = fitIter[run]
        /\ fitOk[run] = 0 \/ (fitOk[run] \in fitMeasured[run] /\ FitsAt(run, fitOk[run]))
        /\ fitNg[run] = Grid \/ (fitNg[run] \in fitMeasured[run] /\ ~FitsAt(run, fitNg[run]))
        /\ fitPc[run] = "returned" =>
              /\ fitIter[run] = Rounds
              /\ fitResult[run] = fitOk[run]
              /\ fitResult[run] \in 0..Grid
              /\ fitResult[run] = 0 \/ FitsAt(run, fitResult[run])
              /\ fitResult[run] + 1 = Grid \/ ~FitsAt(run, fitResult[run] + 1)

\* A call has returned a size strictly between 0 and 100.
C10_Witness ==
    \E run \in Runs :
        /\ fitPc[run] = "returned"
        /\ fitResult[run] > 0
        /\ fitResult[run] + 1 < Grid
        /\ fitFont = "hinted"

(***************************************************************************)
(* Specifications Spec and SpecConcurrent: visualize.  An action is the    *)
(* code an invocation runs between two awaits; the awaits of promises that *)
(* are already resolved, with no statement between them, are one step.     *)
(* From the resumption after `await inference(words)` to the return the    *)
(* code is synchronous: its stages are steps of the invocation that holds  *)
(* `running`, and no other invocation moves meanwhile.                     *)
(***************************************************************************)
Others == <<cwVars, scVars, fitVars, d3Midpoint>>

\* visualize(text, { numClusters, minR, maxR }) up to `await tokenizerPromise`.
\* The effect that runs at mount calls it before the form can be submitted.
Start(inv) ==
    /\ inv \in callers
    /\ pc[inv] = "idle"
    /\ running = "none"
    /\ (inv = "submit" /\ "mount" \in callers) => pc["mount"] # "idle"
    /\ pc' = [pc EXCEPT ![inv] = "awaitTokenizer"]
    /\ timers' = ConsoleTime(timers, "preprocess", inv)
    /\ consoleShared' = (consoleShared \/ Collides(timers, "preprocess", inv))
    /\ UNCHANGED <<callers, args, running, tokens, counted, ref, result, heap, assets, Others>>

\* tokenize after its awaits.
Tokenize(inv) ==
    /\ pc[inv] = "awaitTokenizer"
    /\ running = "none"
    /\ tokens' = [tokens EXCEPT ![inv] = FilterTokens(assets, args[inv].raw)]
    /\ pc' = [pc EXCEPT ![inv] = "awaitTokens"]
    /\ UNCHANGED <<callers, args, running, counted, ref, result, heap, timers,
                   consoleShared, assets, Others>>

\* countWords(await tokenize(text)), then inference(words) up to
\* `await modelPromise`.
Preprocess(inv) ==
    /\ pc[inv] = "awaitTokens"
    /\ running = "none"
    /\ LET ws == CountWords(tokens[inv])
           a == NewWordList(heap)
           ended == ConsoleTimeEnd(timers, "preprocess")
       IN  /\ heap' = Store(heap, a, NewObject("words", ws, inv))
           /\ ref' = [ref EXCEPT ![inv].words = a]
           /\ counted' = [counted EXCEPT ![inv] = ws]
           /\ timers' = ConsoleTime(ended, "inference", inv)
           /\ consoleShared' = (\/ consoleShared
                                \/ Collides(timers, "preprocess", inv)
                                \/ Collides(ended, "inference", inv))
    /\ pc' = [pc EXCEPT ![inv] = "awaitModel"]
    /\ UNCHANGED <<callers, args, running, tokens, result, assets, Others>>

\* inference after its awaits.
Inference(inv) ==
    /\ pc[inv] = "awaitModel"
    /\ running = "none"
    /\ LET vectors == InferenceMap(assets, heap[ref[inv].words].data)
           a == FreshAddress(heap)
       IN  /\ heap' = Store(Touch(heap, ref[inv].words, inv), a,
                            NewObject("vectors", vectors, inv))
           /\ ref' = [ref EXCEPT ![inv].wordVector = a]
    /\ pc' = [pc EXCEPT ![inv] = "awaitVectors"]
    /\ UNCHANGED <<callers, args, running, tokens, counted, result, timers,
                   consoleShared, assets, Others>>

\* dimensionalityReduction(wordVector)
Reduce(inv) ==
    /\ pc[inv] = "awaitVectors"
    /\ running = "none"
    /\ LET vectors == heap[ref[inv].wordVector].data
           ended == ConsoleTimeEnd(timers, "inference")
           a == FreshAddress(heap)
       IN  /\ consoleShared' = (\/ consoleShared
                                \/ Collides(timers, "inference", inv)
                                \/ Collides(ended, "dimensionalityReduction", inv))
           /\ \/ \E seed \in Seeds :
                    /\ heap' = Store(Touch(heap, ref[inv].wordVector, inv), a,
                                     NewObject("xy", Projection(seed, vectors), inv))
                    /\ ref' = [ref EXCEPT ![inv].xy = a]
                    /\ timers' = ConsoleTimeEnd(ended, "dimensionalityReduction")
                    /\ pc' = [pc EXCEPT ![inv] = "cluster"]
                    /\ running' = inv
              \/ /\ DegenerateData(vectors)
                 /\ heap' = Touch(heap, ref[inv].wordVector, inv)
                 /\ timers' = ConsoleTime(ended, "dimensionalityReduction", inv)
                 /\ pc' = [pc EXCEPT ![inv] = "failed"]
                 /\ UNCHANGED <<ref, running>>
    /\ UNCHANGED <<callers, args, tokens, counted, result, assets, Others>>

\* clustering(xy, numClusters)
Cluster(inv) ==
    /\ pc[inv] = "cluster"
    /\ running = inv
    /\ LET xy == heap[ref[inv].xy].data
           a == FreshAddress(heap)
       IN  /\ consoleShared' = (consoleShared \/ Collides(timers, "clustering", inv))
           /\ \/ \E seed \in Seeds :
                    /\ heap' = Store(Touch(heap, ref[inv].xy, inv), a,
                                     NewObject("groups",
                                               Clusters(seed, xy, args[inv].numClusters), inv))
                    /\ ref' = [ref EXCEPT ![inv].groups = a]
                    /\ timers' = ConsoleTimeEnd(timers, "clustering")
                    /\ pc' = [pc EXCEPT ![inv] = "assign"]
                    /\ UNCHANGED running
              \/ /\ DegenerateClustering(xy, args[inv].numClusters)
                 /\ heap' = Touch(heap, ref[inv].xy, inv)
                 /\ timers' = ConsoleTime(timers, "clustering", inv)
                 /\ pc' = [pc EXCEPT ![inv] = "failed"]
                 /\ running' = "none"
                 /\ UNCHANGED ref
    /\ UNCHANGED <<callers, args, tokens, counted, result, assets, Others>>

\* rScale and words.forEach
Assign(inv) ==
    /\ pc[inv] = "assign"
    /\ running = inv
    /\ LET r == ref[inv]
           read == Touch(Touch(heap, r.xy, inv), r.groups, inv)
       IN  heap' = Write(read, r.words,
                         AssignFields(heap[r.words].data, heap[r.xy].data,
                                      heap[r.groups].data, args[inv].minR,
                                      args[inv].maxR, d3Midpoint),
                         inv)
    /\ pc' = [pc EXCEPT ![inv] = "declutter"]
    /\ UNCHANGED <<callers, args, running, tokens, counted, ref, result, timers,
                   consoleShared, assets, Others>>

\* improveLayout(words); return words
ImproveLayout(inv) ==
    /\ pc[inv] = "declutter"
    /\ running = inv
    /\ \E j \in Displacements :
          heap' = Write(heap, ref[inv].words, Declutter(heap[ref[inv].words].data, j), inv)
    /\ consoleShared' = (consoleShared \/ Collides(timers, "improveLayout", inv))
    /\ timers' = ConsoleTimeEnd(timers, "improveLayout")
    /\ result' = [result EXCEPT ![inv] = ref[inv].words]
    /\ pc' = [pc EXCEPT ![inv] = "done"]
    /\ running' = "none"
    /\ UNCHANGED <<callers, args, tokens, counted, ref, assets, Others>>

NextPipeline ==
    \E inv \in Invocations :
        \/ Start(inv)
        \/ Tokenize(inv)
        \/ Preprocess(inv)
        \/ Inference(inv)
        \/ Reduce(inv)
        \/ Cluster(inv)
        \/ Assign(inv)
        \/ ImproveLayout(inv)

SubmitArgs(maxTokens, clusters, radii) ==
    [raw : SeqsUpTo(TextTokens, maxTokens),
     numClusters : clusters,
     minR : radii,
     maxR : radii]

\* One form submission, of any text and parameters.
Init ==
    /\ callers = {"submit"}
    /\ \E a \in SubmitArgs(MaxTokens, 0..MaxClusters, FormRadii) :
          args = [inv \in Invocations |-> IF inv = "mount" THEN DefaultArgs ELSE a]
    /\ PipeStart
    /\ d3Midpoint \in BOOLEAN
    /\ CountIdle
    /\ ScaleIdle
    /\ FitIdle

Spec == Init /\ [][NextPipeline]_vars

\* The mount-time invocation, with the defaults, and a form submission of any
\* short text for one cluster and the default radii.
InitConcurrent ==
    /\ callers = Invocations
    /\ \E a \in SubmitArgs(MaxConcTokens, {1}, {DefaultMinR}) :
          args = [inv \in Invocations |->
                     IF inv = "mount" THEN DefaultArgs
                     ELSE [a EXCEPT !.maxR = DefaultMaxR]]
    /\ PipeStart
    /\ d3Midpoint = TRUE
    /\ CountIdle
    /\ ScaleIdle
    /\ FitIdle

SpecConcurrent == InitConcurrent /\ [][NextPipeline]_vars

WordsOf(inv) == heap[ref[inv].words].data

DistinctWords(ws) == {ws[i] : i \in DOMAIN ws}

Returned(inv) == heap[result[inv]].data

\* C2: when visualize completes, the list it returns has as many Words as
\* there are distinct vocabulary-matched words in the tokenized input, and
\* its words are the words countWords returned.
C2_WordListSize ==
    \A inv \in Invocations :
        pc[inv] = "done" =>
            /\ Len(Returned(inv)) = Cardinality(DistinctWords(tokens[inv]))
            /\ {Returned(inv)[i].word : i \in DOMAIN Returned(inv)}
                  = {counted[inv][i].word : i \in DOMAIN counted[inv]}

Tokenized(inv) == pc[inv] \notin {"idle", "awaitTokenizer"}

\* C6: a text with no token in the vocabulary gives an empty token sequence,
\* and on an empty token sequence visualize raises no error and returns an
\* empty list.
C6_EmptyInput ==
    \A inv \in Invocations :
        Tokenized(inv) =>
            /\ (\A i \in DOMAIN args[inv].raw :
                    args[inv].raw[i] \notin DOMAIN assets.vocabulary)
                  => tokens[inv] = <<>>
            /\ tokens[inv] = <<>> =>
                  /\ pc[inv] # "failed"
                  /\ pc[inv] = "done" => Returned(inv) = <<>>

PastInference(inv) ==
    pc[inv] \in {"awaitVectors", "cluster", "assign", "declutter", "done"}

\* C7: a word with no row in the matrix makes the lookup fail and visualize
\* abort: no vector list with an undefined vector is returned by inference
\* or handed to the projection.
C7_LookupError ==
    \A inv \in Invocations :
        PastInference(inv) =>
            \A i \in DOMAIN heap[ref[inv].wordVector].data :
                heap[ref[inv].wordVector].data[i] # Undefined

Private(h) == \A a \in DOMAIN h : Cardinality(h[a].acc) <= 1

OwnArrays ==
    \A inv \in Invocations : \A other \in Invocations \ {inv} :
        \A f \in DOMAIN NoRef :
            ref[inv][f] # 0 => \A g \in DOMAIN NoRef : ref[other][g] # ref[inv][f]

\* The lists visualize can return on arguments a, over the outcomes of its
\* own library calls.
CanReturn(a, list) ==
    LET ws == CountWords(FilterTokens(LoadedAssets, a.raw))
        vectors == InferenceMap(LoadedAssets, ws)
        scaled == AssignFields(ws, [i \in DOMAIN ws |-> <<0, 0>>],
                               [i \in DOMAIN ws |-> 0], a.minR, a.maxR, d3Midpoint)
    IN  /\ Len(list) = Len(ws)
        /\ \A i \in DOMAIN ws :
              /\ list[i].word = ws[i].word
              /\ list[i].count = ws[i].count
              /\ list[i].r = scaled[i].r
        /\ \E s1 \in Seeds, s2 \in Seeds, j \in Displacements :
              LET xy == Projection(s1, vectors)
                  groups == Clusters(s2, xy, a.numClusters)
              IN  \A i \in DOMAIN ws :
                      /\ list[i].x0 = ProjectionScale * xy[i][1]
                      /\ list[i].y0 = ProjectionScale * xy[i][2]
                      /\ list[i].group = groups[i]
                      /\ list[i].x = list[i].x0 + j * i
                      /\ list[i].y = list[i].y0 - j * i

\* C8 (as stated): under every interleaving each invocation has its own Word
\* list and intermediate arrays, and nothing but the three assets, which no
\* invocation changes, is shared between invocations.
C8_Original ==
    /\ Private(heap)
    /\ OwnArrays
    /\ assets = LoadedAssets
    /\ consoleShared = FALSE

\* C8 (amended): under every interleaving each invocation has its own Word
\* list and intermediate arrays, no object written by one invocation is read
\* or written by another, the assets are never changed, and the list an
\* invocation returns is one its own arguments and its own library calls
\* give; the labels of the console timers are shared besides the assets.
C8_Isolation ==
    /\ Private(heap)
    /\ OwnArrays
    /\ assets = LoadedAssets
    /\ \A inv \in Invocations :
          pc[inv] = "done" => CanReturn(args[inv], Returned(inv))

\* Both invocations were in flight together, one found the other's timer
\* under a label, and both returned a list of their own.
C8_Witness ==
    /\ \A inv \in Invocations : pc[inv] = "done" /\ Returned(inv) # <<>>
    /\ result["mount"] # result["submit"]
    /\ Returned("mount") # Returned("submit")
    /\ consoleShared

Assigned(inv) == pc[inv] \in {"declutter", "done"}

\* C9: from the assignment of the fields on, the Word at index i has the word
\* and count of countWords' entry i, the vector looked up for that word, x0
\* and y0 equal to 600 times the projection row i of that vector, group equal
\* to groups[i] and r equal to the radius scale of its own count; before the
\* declutter x and y equal x0 and y0, and the declutter leaves all but x and y
\* and the order as they were.
C9_Positional ==
    \A inv \in Invocations :
        Assigned(inv) =>
            LET ws == WordsOf(inv)
                vectors == heap[ref[inv].wordVector].data
                xy == heap[ref[inv].xy].data
                groups == heap[ref[inv].groups].data
                counts == [i \in DOMAIN counted[inv] |-> counted[inv][i].count]
            IN  /\ Len(ws) = Len(counted[inv])
                /\ \E seed \in Seeds : xy = Projection(seed, vectors)
                /\ \A i \in DOMAIN ws :
                      /\ ws[i].word = counted[inv][i].word
                      /\ ws[i].count = counted[inv][i].count
                      /\ vectors[i] = EmbeddingRow(assets, ws[i].word)
                      /\ ws[i].x0 = ProjectionScale * xy[i][1]
                      /\ ws[i].y0 = ProjectionScale * xy[i][2]
                      /\ ws[i].group = groups[i]
                      /\ ws[i].r = RScale(counts, args[inv].minR, args[inv].maxR,
                                          d3Midpoint, ws[i].count)
                      /\ pc[inv] = "declutter" => ws[i].x = ws[i].x0 /\ ws[i].y = ws[i].y0

\* A returned list of two Words that differ in count, projection, group and
\* radius, with a Word the declutter moved.
C9_Witness ==
    /\ pc["submit"] = "done"
    /\ Len(Returned("submit")) >= 2
    /\ LET ws == Returned("submit")
       IN  /\ ws[1].count # ws[2].count
           /\ ws[1].x0 # ws[2].x0
           /\ ws[1].group # ws[2].group
           /\ ws[1].r # ws[2].r
           /\ ws[2].x # ws[2].x0

=============================================================================
